---- MODULE Spec2Model ----
(***************************************************************************)
(* Model of the block-metrics core of ccstatusline: the block cache        *)
(* (readBlockCache, writeBlockCache, getCachedBlockMetrics) and the block  *)
(* locator (getBlockMetrics, findMostRecentBlockStartTime,                 *)
(* getAllTimestampsFromFile), and of the render of the GitWorktree and     *)
(* GitChanges widgets.                                                     *)
(*                                                                         *)
(* Spec runs calls of getCachedBlockMetrics to completion between steps of *)
(* the clock and the logger; SpecSession does so for a session of default- *)
(* duration calls and records the start times returned; SpecLocator runs   *)
(* the locator on a grid of log trees, SpecMtimes on log trees with        *)
(* arbitrary modification times; SpecFaults runs both on file systems      *)
(* where operations fail; SpecRace interleaves concurrent calls at their   *)
(* awaits; SpecRecords runs getAllTimestampsFromFile on files of arbitrary *)
(* lines; SpecWidget and SpecChanges run the render of the GitWorktree and *)
(* of the GitChanges widget.                                               *)
(*                                                                         *)
(* Time is an integer number of ticks; TicksPerHour ticks make one hour,   *)
(* so a Date is an integer and floorToHour is visible at tick resolution.  *)
(* The log tree is written by an external logger that stamps an entry with *)
(* the wall clock when it appends it: a file's modification time is never  *)
(* earlier than a timestamp it holds and never later than the clock        *)
(* (except in SpecMtimes).                                                 *)
(***************************************************************************)
EXTENDS Integers, Sequences, FiniteSets

\* ------------------------------------------------------------------ bounds

\* Resolution of the clock: ticks per hour.
TicksPerHour == 2

\* Log files under <root>/projects.
NumFiles == 2

\* Valid entries in a log tree the locator is run on directly (over all files).
MaxStamps == 4

\* Valid entries in the log tree at the start of a run of calls.
MaxInitEntries == 2

\* Clock advances and logger appends the environment performs in one run.
MaxTicks == 2

MaxAppends == 1

\* Entries in a log tree with failing files, and files operations fail on.
MaxFaultEntries == 2

MaxFaults == 2

\* Concurrent callers of getCachedBlockMetrics.
NumCallers == 2

\* Valid entries in the log tree at the start of a session of calls.
MaxSessionEntries == 4

\* Valid entries in a log tree whose modification times are arbitrary.
MaxSkewStamps == 3

\* Lines of a log file getAllTimestampsFromFile is run on directly.
MaxLines == 3

\* ---------------------------------------------------------------- constants

H == TicksPerHour

\* getCachedBlockMetrics(sessionDurationHours = 5),
\* findMostRecentBlockStartTime(rootDir, sessionDurationHours = 5)
DefaultSessionHours == 5

\* Variant: the largest lookback is tried first.
LookbackChunks_LargestFirst == <<48, 20, 10>>

\* const lookbackChunks = [10, 20, 48]
LookbackChunks == <<10, 20, 48>>

\* The hour the runs start at (an arbitrary hour of the epoch, far enough
\* from 0 for every lookback cutoff to be positive).
BaseHour == 100

\* Ages, in ticks before the clock, of the entries a log tree the locator
\* is run on may hold: 0, one tick, 2h, 4h, 5h, 8h, 12h, 21h.
StampAges == {0, 1, 2 * H, 4 * H, 5 * H, 8 * H, 12 * H, 21 * H}

\* Ages of the entries the log tree may hold at the start of a run of calls.
RunAges == {0, 1, 4 * H, 5 * H + 1, 12 * H}

\* Hours a caller passes as sessionDurationHours.
Durations == {1, 5, 8}

\* Ages of the entries of a log tree with failing files.
FaultAges == {0, 4 * H, 12 * H}

\* Ages of the entries, and of the modification times, of a log tree whose
\* modification times are arbitrary: the times are at each lookback cutoff
\* and one tick before it.
SkewAges == {0, H, 4 * H, 6 * H, 11 * H}

MtimeAges ==
    {0, 10 * H, 10 * H + 1, 20 * H, 20 * H + 1, 48 * H, 48 * H + 1}

\* Ages of the entries the log tree may hold at the start of a session.
SessionAges == {0, 1, 3 * H, 7 * H, 16 * H}

\* Steps (in ticks) the wall clock advances by between calls.
TickSteps == {1, 5 * H}

Files == 1 .. NumFiles

\* ------------------------------------------------------------------- values

\* A Date | null: NoDate is null.
NoDate == -1

\* BlockMetrics | null
NullMetrics == [ok |-> FALSE, startTime |-> NoDate, lastActivity |-> NoDate]

Metrics(s, l) == [ok |-> TRUE, startTime |-> s, lastActivity |-> l]

Max(S) == CHOOSE x \in S : \A y \in S : y <= x

Min(S) == CHOOSE x \in S : \A y \in S : x <= y

\* ------------------------------------------------------------ block cache

\* Date.prototype.toISOString, at tick resolution: the UTC hour and the part
\* of the hour (minutes, seconds, milliseconds), as the string's fields.
ToISOString(t) == [hour |-> t \div H, frac |-> t % H]

\* new Date(isoString).getTime()
DateParse(iso) == iso.hour * H + iso.frac

\* The cache file: absent, or content of one of the kinds readBlockCache
\* tells apart; iso is the startTime string of a well-formed record.
\* fault is the condition of the cache store: "none", "denied" (the
\* directory cannot be created or the file not opened for writing) or
\* "nospace" (the file is opened, and so truncated, but the data is not
\* written).
NoISO == [hour |-> 0, frac |-> 0]

AbsentCache == [kind |-> "absent", iso |-> NoISO, fault |-> "none"]

InvalidKinds == {"garbage", "nostring", "baddate"}

StoreFaults == {"denied", "nospace"}

CacheRecord(iso) == [kind |-> "json", iso |-> iso, fault |-> "none"]

\* The file a write that fails after opening it leaves: empty.
TruncatedCache(c) == [kind |-> "garbage", iso |-> NoISO, fault |-> c.fault]

\* Variant of readBlockCache without the typeof test: a startTime that is a
\* number (epoch milliseconds) is accepted as a date.
ReadBlockCache_NoTypeCheck(c) ==
    IF c.kind \in {"json", "nostring"} THEN DateParse(c.iso) ELSE NoDate

\* readBlockCache(): the cached start time, or null (also when readFile or
\* JSON.parse throws: the catch returns null)
ReadBlockCache(c) ==
    IF c.kind = "json" THEN DateParse(c.iso) ELSE NoDate

\* Variant of writeBlockCache: the record holds the start as the wall time
\* of a zone one hour east of UTC, which readBlockCache reads as UTC.
WriteBlockCache_LocalTime(startTime) ==
    CacheRecord(ToISOString(startTime + H))

\* writeBlockCache(startTime): the file after the write
WriteBlockCache(startTime) == CacheRecord(ToISOString(startTime))

\* --------------------------------------------------------------- locator

\* Variants of floorToHour: no flooring, and flooring in a local time zone
\* whose offset from UTC is not a whole number of hours (setMinutes).
floorToHour_Identity(t) == t

floorToHour_Local(t) == (t + 1) - ((t + 1) % H) - 1

\* floorToHour(timestamp): setUTCMinutes(0, 0, 0)
floorToHour(t) == t - (t % H)

\* Variant: the dates are left in the order the files gave them.
SortDesc_None(s) == s

\* Array.prototype.sort((a, b) => b - a) on a sequence of dates
RECURSIVE InsertDesc(_, _)
InsertDesc(x, s) ==
    IF s = <<>> THEN <<x>>
    ELSE IF x >= Head(s) THEN <<x>> \o s
    ELSE <<Head(s)>> \o InsertDesc(x, Tail(s))

RECURSIVE SortDesc(_)
SortDesc(s) ==
    IF s = <<>> THEN <<>> ELSE InsertDesc(Head(s), SortDesc(Tail(s)))

\* timestamps.slice().sort((a, b) => a - b)
RECURSIVE Reverse(_)
Reverse(s) ==
    IF s = <<>> THEN <<>> ELSE Reverse(Tail(s)) \o <<Head(s)>>

SortAsc(s) == Reverse(SortDesc(s))

\* A set of dates as the sequence of a file's entries, in append order.
RECURSIVE SetToAscSeq(_)
SetToAscSeq(S) ==
    IF S = {} THEN <<>>
    ELSE LET m == Min(S) IN <<m>> \o SetToAscSeq(S \ {m})

\* Variant: the files are listed though the root cannot be read.
Glob_IgnoresRoot(fs, rootOk) == SetToAscSeq({f \in Files : fs[f].exists})

\* glob([pattern]): the files that exist under the root, in the order the
\* enumeration yields them (the order of their indices); none when the root
\* is missing or cannot be read.
Glob(fs, rootOk) ==
    IF rootOk THEN SetToAscSeq({f \in Files : fs[f].exists}) ELSE <<>>

\* Variant: the files are left in the order they were listed in.
SortByMtime_None(s, fs) == s

\* filesWithStats.sort((a, b) => b.mtime - a.mtime): stable, most recent first
RECURSIVE InsertByMtime(_, _, _)
InsertByMtime(f, s, fs) ==
    IF s = <<>> THEN <<f>>
    ELSE IF fs[f].mtime >= fs[Head(s)].mtime THEN <<f>> \o s
    ELSE <<Head(s)>> \o InsertByMtime(f, Tail(s), fs)

RECURSIVE SortByMtime(_, _)
SortByMtime(s, fs) ==
    IF s = <<>> THEN <<>>
    ELSE InsertByMtime(Head(s), SortByMtime(Tail(s), fs), fs)

\* A line of a log file, as getAllTimestampsFromFile tells lines apart:
\* whether JSON.parse accepts the text, whether the value is null (reading a
\* property of it throws) or an object, whether it has message and
\* message.usage, the types of usage.input_tokens and usage.output_tokens,
\* isSidechain, and the type and text of timestamp.
BadISO == [hour |-> -1, frac |-> 0]

\* new Date(timestamp).getTime(), NoDate standing for NaN
ParseTimestamp(iso) == IF iso = BadISO THEN NoDate ELSE DateParse(iso)

\* The line of a usage entry dated t.
ValidLine(t) ==
    [text |-> "json", value |-> "object", message |-> TRUE, usage |-> TRUE,
     input_tokens |-> "number", output_tokens |-> "number",
     isSidechain |-> "absent",
     timestamp |-> [type |-> "string", iso |-> ToISOString(t)]]

\* The ways a line can fall short of a usage entry, one at a time.
Defects ==
    <<"notjson", "jsonnull", "nomessage", "nousage", "noinput", "nooutput",
      "sidechain", "notimestamp", "numtimestamp", "baddate">>

\* The line dated t with defect d.
DefectiveLine(d, t) ==
    LET l == ValidLine(t)
    IN CASE d = "notjson" -> [l EXCEPT !.text = "notjson"]
         [] d = "jsonnull" -> [l EXCEPT !.value = "null"]
         [] d = "nomessage" -> [l EXCEPT !.message = FALSE, !.usage = FALSE]
         [] d = "nousage" -> [l EXCEPT !.usage = FALSE]
         [] d = "noinput" -> [l EXCEPT !.input_tokens = "other"]
         [] d = "nooutput" -> [l EXCEPT !.output_tokens = "other"]
         [] d = "sidechain" -> [l EXCEPT !.isSidechain = "true"]
         [] d = "notimestamp" -> [l EXCEPT !.timestamp.type = "absent"]
         [] d = "numtimestamp" -> [l EXCEPT !.timestamp.type = "number"]
         [] d = "baddate" -> [l EXCEPT !.timestamp.iso = BadISO]

\* One line of each defect, all dated t.
JunkLines(t) == [k \in 1 .. Len(Defects) |-> DefectiveLine(Defects[k], t)]

\* Variant of the body of the loop over the lines: without the isSidechain
\* test.
LineTimestamps_Sidechain(l) ==
    IF l.text # "json" \/ l.value = "null" THEN <<>>
    ELSE IF ~(l.message /\ l.usage) THEN <<>>
    ELSE IF l.input_tokens # "number" \/ l.output_tokens # "number" THEN <<>>
    ELSE IF l.timestamp.type # "string" THEN <<>>
    ELSE IF ParseTimestamp(l.timestamp.iso) = NoDate THEN <<>>
    ELSE <<ParseTimestamp(l.timestamp.iso)>>

\* The body of for (const line of lines): the dates the line pushes (none or
\* one); JSON.parse or the property access throwing is caught and skips the
\* line.
LineTimestamps(l) ==
    IF l.text # "json" \/ l.value = "null" THEN <<>>
    ELSE IF ~(l.message /\ l.usage) THEN <<>>
    ELSE IF l.input_tokens # "number" \/ l.output_tokens # "number" THEN <<>>
    ELSE IF l.isSidechain = "true" THEN <<>>
    ELSE IF l.timestamp.type # "string" THEN <<>>
    ELSE IF ParseTimestamp(l.timestamp.iso) = NoDate THEN <<>>
    ELSE <<ParseTimestamp(l.timestamp.iso)>>

\* for (const line of lines) { ... }; return timestamps
RECURSIVE ParseLines(_)
ParseLines(lines) ==
    IF lines = <<>> THEN <<>>
    ELSE LineTimestamps(Head(lines)) \o ParseLines(Tail(lines))

\* The lines of a log file: its usage entries, and the other lines it holds.
\* (The locator sorts the dates it reads, so where a line stands in its file
\* does not matter to it.)
FileLines(file) ==
    LET asc == SetToAscSeq(file.stamps)
    IN [k \in 1 .. Len(asc) |-> ValidLine(asc[k])] \o file.junk

\* getAllTimestampsFromFile(filePath): the dates of the file's valid entries;
\* none when readFile throws
getAllTimestampsFromFile(fs, f) ==
    IF fs[f].readOk THEN ParseLines(FileLines(fs[f])) ELSE <<>>

\* The inner loop of one lookback pass: walk the sorted files from position
\* i, stop at the first one modified before the cutoff.
RECURSIVE CollectTimestamps(_, _, _, _)
CollectTimestamps(sorted, i, fs, cutoff) ==
    IF i > Len(sorted) THEN <<>>
    ELSE IF fs[sorted[i]].mtime < cutoff THEN <<>>
    ELSE getAllTimestampsFromFile(fs, sorted[i])
             \o CollectTimestamps(sorted, i + 1, fs, cutoff)

\* The files one lookback pass opens, in the order it opens them: the sorted
\* files from position i up to the first one modified before the cutoff
\* (break).
RECURSIVE OpenedFiles(_, _, _, _)
OpenedFiles(sorted, i, fs, cutoff) ==
    IF i > Len(sorted) THEN <<>>
    ELSE IF fs[sorted[i]].mtime < cutoff THEN <<>>
    ELSE <<sorted[i]>> \o OpenedFiles(sorted, i + 1, fs, cutoff)

\* Variant of the boundary test: a gap of exactly one session is none.
IsSessionGap_Strict(gap, durT) == gap > durT

\* if (gap >= sessionDurationMs): a true session boundary
IsSessionGap(gap, durT) == gap >= durT

\* Variant of the staleness test: activity exactly one session old is stale.
IsStale_Inclusive(timeSinceLastActivity, durT) == timeSinceLastActivity >= durT

\* if (timeSinceLastActivity > sessionDurationMs): no activity within the
\* current session period
IsStale(timeSinceLastActivity, durT) == timeSinceLastActivity > durT

\* The gap walk of one pass over the descending timestamps, from index i:
\* the continuous work start reached and whether a session gap was found.
RECURSIVE GapWalk(_, _, _, _)
GapWalk(ts, i, cws, durT) ==
    IF i > Len(ts) THEN [cws |-> cws, found |-> FALSE]
    ELSE IF IsSessionGap(ts[i - 1] - ts[i], durT)
    THEN [cws |-> cws, found |-> TRUE]
    ELSE GapWalk(ts, i + 1, ts[i], durT)

\* Variant: the loop never expands past the first pass that found entries.
IsLastChunk_Always(i) == TRUE

\* if (lookbackHours === lookbackChunks[lookbackChunks.length - 1]), for the
\* i-th chunk
IsLastChunk(i) == LookbackChunks[i] = LookbackChunks[Len(LookbackChunks)]

\* Variant: every pass takes the first of its timestamps as the most recent
\* one.
MostRecent_Overwrite(mostRecentTimestamp, ts) == ts[1]

\* if (!mostRecentTimestamp && timestamps[0]) mostRecentTimestamp =
\* timestamps[0]: the most recent timestamp after a pass that read the
\* (sorted, non-empty) timestamps ts
MostRecent(mostRecentTimestamp, ts) ==
    IF mostRecentTimestamp = NoDate THEN ts[1] ELSE mostRecentTimestamp

\* The state of the lookback loop: the let-bound variables of
\* findMostRecentBlockStartTime, the number of passes run, the files each
\* pass opened, and whether the staleness test returned null.
LoopInit ==
    [timestamps |-> <<>>, mostRecentTimestamp |-> NoDate,
     continuousWorkStart |-> NoDate, foundSessionGap |-> FALSE,
     passes |-> 0, opened |-> <<>>, stale |-> FALSE]

\* for (const lookbackHours of lookbackChunks) { ... }, from chunk i
RECURSIVE LookbackLoop(_, _, _, _, _, _)
LookbackLoop(i, st, sorted, fs, nowT, durT) ==
    IF i > Len(LookbackChunks) THEN st
    ELSE
      LET cutoffTime == nowT - LookbackChunks[i] * H
          raw == CollectTimestamps(sorted, 1, fs, cutoffTime)
          read == OpenedFiles(sorted, 1, fs, cutoffTime)
      IN
        IF Len(raw) = 0
        THEN LookbackLoop(i + 1,
                          [st EXCEPT !.timestamps = <<>>, !.passes = i,
                                     !.opened = Append(@, read)],
                          sorted, fs, nowT, durT)
        ELSE
          LET ts == SortDesc(raw)
              first == st.mostRecentTimestamp = NoDate
              mr == MostRecent(st.mostRecentTimestamp, ts)
          IN
            IF first /\ IsStale(nowT - mr, durT)
            THEN [st EXCEPT !.timestamps = ts, !.mostRecentTimestamp = mr,
                            !.passes = i, !.opened = Append(@, read),
                            !.stale = TRUE]
            ELSE
              LET walk == GapWalk(ts, 2, mr, durT)
                  nst == [st EXCEPT !.timestamps = ts,
                                    !.mostRecentTimestamp = mr,
                                    !.continuousWorkStart = walk.cws,
                                    !.foundSessionGap = walk.found,
                                    !.passes = i,
                                    !.opened = Append(@, read)]
              IN
                IF walk.found \/ IsLastChunk(i)
                THEN nst
                ELSE LookbackLoop(i + 1, nst, sorted, fs, nowT, durT)

\* Variant: a timestamp at the very end of the open block starts a new one.
StartsNewBlock_AtEnd(t, blocks) ==
    blocks = <<>> \/ t >= blocks[Len(blocks)].end

\* if (!currentBlockStart || (currentBlockEnd && timestamp > currentBlockEnd))
StartsNewBlock(t, blocks) ==
    blocks = <<>> \/ t > blocks[Len(blocks)].end

\* Variant: the end of the block is not tested.
ContainsNow_NoEnd(b, nowT) == nowT >= b.start

\* now >= block.start && now <= block.end
ContainsNow(b, nowT) == nowT >= b.start /\ nowT <= b.end

\* Build actual blocks from timestamps going forward: the blocks pushed while
\* scanning the ascending timestamps from index i.
RECURSIVE BuildBlocks(_, _, _, _, _)
BuildBlocks(asc, i, cws, durT, blocks) ==
    IF i > Len(asc) THEN blocks
    ELSE IF asc[i] < cws THEN BuildBlocks(asc, i + 1, cws, durT, blocks)
    ELSE IF StartsNewBlock(asc[i], blocks)
    THEN BuildBlocks(asc, i + 1, cws, durT,
                     Append(blocks, [start |-> floorToHour(asc[i]),
                                     end |-> floorToHour(asc[i]) + durT]))
    ELSE BuildBlocks(asc, i + 1, cws, durT, blocks)

\* timestamps.some(t => t >= block.start && t <= block.end)
HasActivity(ts, b) ==
    \E k \in 1 .. Len(ts) : ts[k] >= b.start /\ ts[k] <= b.end

\* Find current block: the first block, from index i, that contains now and
\* has activity.
RECURSIVE FindCurrentBlock(_, _, _, _, _)
FindCurrentBlock(blocks, i, ts, nowT, mr) ==
    IF i > Len(blocks) THEN NullMetrics
    ELSE IF ContainsNow(blocks[i], nowT) /\ HasActivity(ts, blocks[i])
    THEN Metrics(blocks[i].start, mr)
    ELSE FindCurrentBlock(blocks, i + 1, ts, nowT, mr)

\* The outcome of a scan: the result, the blocks built, the final state of
\* the lookback loop, whether the scan threw, and whether getBlockMetrics
\* caught what it threw.
NoScan ==
    [res |-> NullMetrics, blocks |-> <<>>, loop |-> LoopInit,
     threw |-> FALSE, caught |-> FALSE]

\* await Promise.all(files.map(async file => stat(file))): rejects when one
\* stat does
StatThrows(listed, fs) == \E k \in 1 .. Len(listed) : ~fs[listed[k]].statOk

\* findMostRecentBlockStartTime(rootDir, sessionDurationHours): the result,
\* with the blocks built and the final state of the lookback loop.
findMostRecentBlockStartTime(fs, rootOk, nowT, sessionDurationHours) ==
    LET sessionDurationMs == sessionDurationHours * H
        files == Glob(fs, rootOk)
    IN
      IF Len(files) = 0 THEN NoScan
      ELSE IF StatThrows(files, fs) THEN [NoScan EXCEPT !.threw = TRUE]
      ELSE
        LET sorted == SortByMtime(files, fs)
            st == LookbackLoop(1, LoopInit, sorted, fs, nowT, sessionDurationMs)
        IN
          IF st.stale
             \/ st.mostRecentTimestamp = NoDate
             \/ st.continuousWorkStart = NoDate
          THEN [NoScan EXCEPT !.loop = st]
          ELSE
            LET blocks == BuildBlocks(SortAsc(st.timestamps), 1,
                                      st.continuousWorkStart,
                                      sessionDurationMs, <<>>)
            IN [NoScan EXCEPT
                  !.res = FindCurrentBlock(blocks, 1, st.timestamps, nowT,
                                           st.mostRecentTimestamp),
                  !.blocks = blocks, !.loop = st]

\* catch { return null; } around the scan
CatchScan(scan) ==
    IF scan.threw
    THEN [scan EXCEPT !.res = NullMetrics, !.threw = FALSE, !.caught = TRUE]
    ELSE scan

\* Variant of getBlockMetrics without the try/catch around the scan.
getBlockMetrics_NoCatch(fs, rootOk, nowT) ==
    findMostRecentBlockStartTime(fs, rootOk, nowT, DefaultSessionHours)

\* getBlockMetrics(): the locator with its default session duration; null
\* when the scan throws
getBlockMetrics(fs, rootOk, nowT) ==
    CatchScan(findMostRecentBlockStartTime(fs, rootOk, nowT,
                                           DefaultSessionHours))

\* Variants of the expiry test: exclusive at the end of the block, and with
\* the comparison turned around.
CacheStillValid_Exclusive(cachedStartTime, nowT, durT) ==
    nowT < cachedStartTime + durT

CacheStillValid_Inverted(cachedStartTime, nowT, durT) ==
    nowT >= cachedStartTime + durT

\* if (now.getTime() <= blockEndTime.getTime()): the cache is valid
CacheStillValid(cachedStartTime, nowT, durT) ==
    nowT <= cachedStartTime + durT

\* if (metrics) { await writeBlockCache(metrics.startTime); }: the start
\* times written, and the cache file afterwards
WritesOnMiss(metrics) ==
    IF metrics.ok THEN <<metrics.startTime>> ELSE <<>>

\* Variant: the file is opened for appending, the record lands after what
\* the file holds.
WriteData_Append(c, rec) ==
    IF c.kind = "garbage" /\ c.iso = NoISO THEN rec
    ELSE [kind |-> "garbage", iso |-> rec.iso, fault |-> c.fault]

\* writeFile, the write after the open: the record is written in one write
\* at offset 0; every record has the same length (toISOString has 24
\* characters for every year from 0 to 9999), so the write replaces whatever
\* the file holds.
WriteData(c, rec) == rec

\* writeBlockCache(startTime) on cache file c: mkdir or writeFile may throw,
\* the catch absorbs it; the file afterwards.
TryWriteBlockCache(c, startTime) ==
    IF c.fault = "none" THEN WriteBlockCache(startTime)
    ELSE IF c.fault = "denied" THEN c
    ELSE TruncatedCache(c)

\* Variant: a miss that finds no block clears the cache file.
CacheAfterMiss_Clearing(c, metrics) ==
    IF metrics.ok THEN TryWriteBlockCache(c, metrics.startTime)
    ELSE AbsentCache

CacheAfterMiss(c, metrics) ==
    IF metrics.ok THEN TryWriteBlockCache(c, metrics.startTime) ELSE c

\* getCachedBlockMetrics(sessionDurationHours) on cache file c: the result
\* (or that the call raised: what getBlockMetrics throws is not caught
\* here), whether the locator ran, the writeBlockCache calls made, the cache
\* file afterwards, and what the call read.
getCachedBlockMetrics(c, fs, rootOk, nowT, sessionDurationHours) ==
    LET sessionDurationMs == sessionDurationHours * H
        cachedStartTime == ReadBlockCache(c)
        base == [d |-> sessionDurationHours, before |-> c]
    IN
      IF cachedStartTime # NoDate
         /\ CacheStillValid(cachedStartTime, nowT, sessionDurationMs)
      THEN [fn |-> "getCachedBlockMetrics", in |-> base,
            res |-> Metrics(cachedStartTime, nowT), raised |-> FALSE,
            scanned |-> FALSE, scan |-> NoScan, writes |-> <<>>, after |-> c]
      ELSE
        LET scan == getBlockMetrics(fs, rootOk, nowT)
        IN IF scan.threw
           THEN [fn |-> "getCachedBlockMetrics", in |-> base,
                 res |-> NullMetrics, raised |-> TRUE,
                 scanned |-> TRUE, scan |-> scan, writes |-> <<>>,
                 after |-> c]
           ELSE [fn |-> "getCachedBlockMetrics", in |-> base,
                 res |-> scan.res, raised |-> FALSE,
                 scanned |-> TRUE, scan |-> scan,
                 writes |-> WritesOnMiss(scan.res),
                 after |-> CacheAfterMiss(c, scan.res)]

\* ------------------------------------------------------------------- state

VARIABLES
    now,      \* the wall clock
    files,    \* the log tree: per file, whether it exists, its mtime, the
              \* dates of its valid entries
    rootOk,   \* whether the root directory is accessible
    cache,    \* the block cache file
    ret,      \* the record of the call that has just returned (fn = "none"
              \* once the environment has moved on)
    ticks,    \* clock advances so far
    appends,  \* logger appends so far
    callers,  \* the getCachedBlockMetrics calls that run concurrently: where
              \* each one stands, and its local variables
    written,  \* the start time of the last record written to the cache file
    parse,    \* a log file getAllTimestampsFromFile is run on, and its result
    widget,   \* a widget render call: its arguments, what git answers, and
              \* what it returned
    history   \* the start times the calls of a session have returned: the
              \* last one, and the different one before it (not program
              \* state: a record of what the callers saw)

vars ==
    <<now, files, rootOk, cache, ret, ticks, appends, callers, written,
      parse, widget, history>>

\* The state outside the calls a caller runs to completion.
concurrent == <<callers, written>>

units == <<parse, widget>>

\* A log file: whether it exists, its modification time, the dates of its
\* usage entries, its other lines, and whether stat and readFile succeed
\* on it.
NoFile ==
    [exists |-> FALSE, mtime |-> 0, stamps |-> {}, junk |-> <<>>,
     statOk |-> TRUE, readOk |-> TRUE]

LogFile(mtime, stamps, junk) ==
    [exists |-> TRUE, mtime |-> mtime, stamps |-> stamps, junk |-> junk,
     statOk |-> TRUE, readOk |-> TRUE]

NoCall ==
    [fn |-> "none",
     in |-> [d |-> 0, before |-> AbsentCache],
     res |-> NullMetrics, raised |-> FALSE, scanned |-> FALSE,
     scan |-> NoScan, writes |-> <<>>, after |-> AbsentCache]

Now0 == BaseHour * H

\* Callers of getCachedBlockMetrics that may run at the same time.
Callers == 1 .. NumCallers

\* A caller that has not called yet.
IdleCaller ==
    [pc |-> "idle", d |-> 0, started |-> NoDate, res |-> NullMetrics,
     raised |-> FALSE, wrote |-> FALSE]

\* No start time returned yet.
NoHistory == [last |-> NoDate, prev |-> NoDate]

\* The history after a call returned res: a start time other than the last
\* one returned becomes the last one.
Recorded(h, res) ==
    IF res.ok /\ res.startTime # h.last
    THEN [last |-> res.startTime, prev |-> h.last]
    ELSE h

\* No concurrent call, no file parsed on its own, no widget rendered,
\* nothing returned yet.
Quiet ==
    /\ callers = [p \in Callers |-> IdleCaller]
    /\ written = NoDate
    /\ history = NoHistory

NoParse == [lines |-> <<>>, done |-> FALSE, timestamps |-> <<>>]

NoWidget == [type |-> "none"]

NoUnits ==
    /\ parse = NoParse
    /\ widget = NoWidget

\* The log tree holding the entries S at clock time t: every entry belongs to
\* one file; a file is as its last valid entry left it, or was written since
\* (touched) without adding a valid entry: lines that are no usage entries
\* were appended at t; a file with no valid entry exists only if it was
\* touched.
LogTree(S, owner, touched, t) ==
    [f \in Files |->
       LET C == {x \in S : owner[x] = f}
       IN IF touched[f] THEN LogFile(t, C, JunkLines(t))
          ELSE IF C = {} THEN NoFile
          ELSE LogFile(Max(C), C, <<>>)]

\* The log trees over the entry ages `ages` with at most n valid entries.
InitFiles(ages, n, t) ==
    \E S \in SUBSET {t - a : a \in ages} :
      /\ Cardinality(S) <= n
      /\ \E owner \in [S -> Files], touched \in [Files -> BOOLEAN] :
           files = LogTree(S, owner, touched, t)

\* A run of calls starts with no cache file.
Init ==
    /\ now = Now0
    /\ InitFiles(RunAges, MaxInitEntries, Now0)
    /\ rootOk = TRUE
    /\ cache = AbsentCache
    /\ ret = NoCall
    /\ ticks = 0
    /\ appends = 0
    /\ Quiet
    /\ NoUnits

\* ----------------------------------------------------------------- actions

\* A caller runs getCachedBlockMetrics(d) to completion.
Call ==
    \E d \in Durations :
      LET r == getCachedBlockMetrics(cache, files, rootOk, now, d)
      IN /\ ret' = r
         /\ cache' = r.after
         /\ UNCHANGED <<now, files, rootOk, ticks, appends,
                        concurrent, units, history>>

\* The wall clock advances.
Tick ==
    /\ ticks < MaxTicks
    /\ \E k \in TickSteps : now' = now + k
    /\ ticks' = ticks + 1
    /\ ret' = NoCall
    /\ UNCHANGED <<files, rootOk, cache, appends, concurrent, units, history>>

\* The logger appends a valid entry, stamped with the current time, to a log
\* file (creating the file if needed).
AppendEntry ==
    /\ appends < MaxAppends
    /\ rootOk
    /\ \E f \in Files :
         files' = [files EXCEPT ![f] =
                     [@ EXCEPT !.exists = TRUE, !.mtime = now,
                               !.stamps = @ \cup {now}]]
    /\ appends' = appends + 1
    /\ ret' = NoCall
    /\ UNCHANGED <<now, rootOk, cache, ticks, concurrent, units, history>>

\* The root directory becomes inaccessible, or accessible again.
ToggleRoot ==
    /\ rootOk' = ~rootOk
    /\ ret' = NoCall
    /\ UNCHANGED <<now, files, cache, ticks, appends,
                   concurrent, units, history>>

\* The cache file is removed, or replaced by content that is no record:
\* text that is not JSON, JSON whose startTime is a number (holding the same
\* instant), or JSON whose startTime string is no date.
SpoilCache ==
    /\ cache.kind = "json"
    /\ \E k \in {"absent"} \cup InvalidKinds :
         cache' = [kind |-> k,
                   iso |-> IF k = "nostring" THEN cache.iso ELSE NoISO,
                   fault |-> cache.fault]
    /\ ret' = NoCall
    /\ UNCHANGED <<now, files, rootOk, ticks, appends,
                   concurrent, units, history>>

Next == Call \/ Tick \/ AppendEntry \/ ToggleRoot \/ SpoilCache

Spec == Init /\ [][Next]_vars

\* The locator alone, as getBlockMetrics() runs it, on every log tree of the
\* grid, at the base hour and one tick past it.
InitLocator ==
    /\ now \in {Now0, Now0 + 1}
    /\ InitFiles(StampAges, MaxStamps, now)
    /\ rootOk = TRUE
    /\ cache = AbsentCache
    /\ ret = NoCall
    /\ ticks = 0
    /\ appends = 0
    /\ Quiet
    /\ NoUnits

\* A caller runs getBlockMetrics() to completion.
Locate ==
    /\ LET scan == getBlockMetrics(files, rootOk, now)
       IN ret' = [fn |-> "getBlockMetrics",
                  in |-> [d |-> DefaultSessionHours, before |-> cache],
                  res |-> scan.res, raised |-> scan.threw,
                  scanned |-> TRUE, scan |-> scan,
                  writes |-> <<>>, after |-> cache]
    /\ UNCHANGED <<now, files, rootOk, cache, ticks, appends, concurrent,
                   units, history>>

SpecLocator == InitLocator /\ [][Locate]_vars

\* The locator on log trees whose modification times say nothing about the
\* entries (files copied, restored or touched, entries stamped by another
\* clock): every file has any of the times, whatever it holds.
InitMtimes ==
    /\ now = Now0
    /\ \E S \in SUBSET {Now0 - a : a \in SkewAges} :
         /\ Cardinality(S) <= MaxSkewStamps
         /\ \E owner \in [S -> Files], present \in [Files -> BOOLEAN],
               mtime \in [Files -> {Now0 - a : a \in MtimeAges}] :
              files = [f \in Files |->
                         LET C == {x \in S : owner[x] = f}
                         IN IF C = {} /\ ~present[f] THEN NoFile
                            ELSE LogFile(mtime[f], C, <<>>)]
    /\ rootOk = TRUE
    /\ cache = AbsentCache
    /\ ret = NoCall
    /\ ticks = 0
    /\ appends = 0
    /\ Quiet
    /\ NoUnits

SpecMtimes == InitMtimes /\ [][Locate]_vars

\* A session of getCachedBlockMetrics() calls with the default duration,
\* from no cache file, while the clock advances and the logger appends: the
\* log tree starts with up to MaxSessionEntries entries, each file as its
\* last entry left it.
InitSession ==
    /\ now = Now0
    /\ \E S \in SUBSET {Now0 - a : a \in SessionAges} :
         /\ Cardinality(S) <= MaxSessionEntries
         /\ \E owner \in [S -> Files] :
              files = LogTree(S, owner, [f \in Files |-> FALSE], Now0)
    /\ rootOk = TRUE
    /\ cache = AbsentCache
    /\ ret = NoCall
    /\ ticks = 0
    /\ appends = 0
    /\ Quiet
    /\ NoUnits

\* A caller runs getCachedBlockMetrics() to completion; what it returned is
\* recorded.
CallDefault ==
    /\ ret' = getCachedBlockMetrics(cache, files, rootOk, now,
                                    DefaultSessionHours)
    /\ cache' = ret'.after
    /\ history' = Recorded(history, ret'.res)
    /\ UNCHANGED <<now, files, rootOk, ticks, appends, concurrent, units>>

NextSession == CallDefault \/ Tick \/ AppendEntry

SpecSession == InitSession /\ [][NextSession]_vars

\* Calls on a file system where operations fail: stat or readFile fails on
\* some log files, the root may be missing, the cache file may be unreadable
\* and the cache store may refuse writes.
FaultyCaches ==
    {[kind |-> k, iso |-> NoISO, fault |-> w] :
        k \in {"absent", "unreadable"}, w \in {"none"} \cup StoreFaults}
    \cup {[kind |-> "json", iso |-> ToISOString(Now0 - a), fault |-> w] :
              a \in {4 * H, 12 * H}, w \in {"none"} \cup StoreFaults}

InitFaults ==
    /\ now = Now0
    /\ \E S \in SUBSET {Now0 - a : a \in FaultAges} :
         /\ Cardinality(S) <= MaxFaultEntries
         /\ \E owner \in [S -> Files], touched \in [Files -> BOOLEAN],
               noStat \in SUBSET Files, noRead \in SUBSET Files :
              LET tree == LogTree(S, owner, touched, Now0)
              IN /\ \A f \in noStat \cup noRead : tree[f].exists
                 /\ Cardinality(noStat) + Cardinality(noRead) <= MaxFaults
                 /\ files = [f \in Files |->
                               [tree[f] EXCEPT !.statOk = f \notin noStat,
                                               !.readOk = f \notin noRead]]
    /\ rootOk \in BOOLEAN
    /\ cache \in FaultyCaches
    /\ ret = NoCall
    /\ ticks = 0
    /\ appends = 0
    /\ Quiet
    /\ NoUnits

NextFaults == Call \/ Locate

SpecFaults == InitFaults /\ [][NextFaults]_vars

\* Concurrent calls of getCachedBlockMetrics: each await of a call is a point
\* where another call, the clock or the logger may take a step. A scan is one
\* step (it does not touch the cache file).
RaceDurations == {1, DefaultSessionHours}

\* The calls start on a log tree holding one entry, made at this instant.
InitRace ==
    /\ now = Now0
    /\ files = LogTree({Now0}, [x \in {Now0} |-> 1],
                       [f \in Files |-> FALSE], Now0)
    /\ rootOk = TRUE
    /\ cache = AbsentCache
    /\ ret = NoCall
    /\ ticks = 0
    /\ appends = 0
    /\ Quiet
    /\ NoUnits

unshared == <<now, files, rootOk, ret, ticks, appends, units, history>>

\* const now = new Date()
Begin ==
    \E p \in Callers, d \in RaceDurations :
      /\ callers[p].pc = "idle"
      /\ callers' = [callers EXCEPT ![p] =
                       [@ EXCEPT !.pc = "read", !.d = d, !.started = now]]
      /\ UNCHANGED <<cache, written, unshared>>

\* const cachedStartTime = await readBlockCache(); return the cached block
\* if it has not ended
ReadCache ==
    \E p \in Callers :
      /\ callers[p].pc = "read"
      /\ LET c == callers[p]
             cachedStartTime == ReadBlockCache(cache)
         IN callers' = [callers EXCEPT ![p] =
              IF cachedStartTime # NoDate
                 /\ CacheStillValid(cachedStartTime, c.started, c.d * H)
              THEN [c EXCEPT !.pc = "done",
                             !.res = Metrics(cachedStartTime, c.started)]
              ELSE [c EXCEPT !.pc = "scan"]]
      /\ UNCHANGED <<cache, written, unshared>>

\* const metrics = await getBlockMetrics(); if (metrics) ...
Scan ==
    \E p \in Callers :
      /\ callers[p].pc = "scan"
      /\ LET c == callers[p]
             scan == getBlockMetrics(files, rootOk, now)
         IN callers' = [callers EXCEPT ![p] =
              IF scan.threw THEN [c EXCEPT !.pc = "done", !.raised = TRUE]
              ELSE IF scan.res.ok
              THEN [c EXCEPT !.pc = "open", !.res = scan.res]
              ELSE [c EXCEPT !.pc = "done", !.res = NullMetrics]]
      /\ UNCHANGED <<cache, written, unshared>>

\* writeBlockCache: await mkdir; writeFile opening the file (which truncates
\* it)
OpenCache ==
    \E p \in Callers :
      /\ callers[p].pc = "open"
      /\ IF cache.fault = "denied"
         THEN /\ callers' = [callers EXCEPT ![p].pc = "done"]
              /\ UNCHANGED cache
         ELSE /\ callers' = [callers EXCEPT ![p].pc = "write"]
              /\ cache' = TruncatedCache(cache)
      /\ UNCHANGED <<written, unshared>>

\* writeFile writing the record
WriteCache ==
    \E p \in Callers :
      /\ callers[p].pc = "write"
      /\ IF cache.fault = "nospace"
         THEN /\ callers' = [callers EXCEPT ![p].pc = "done"]
              /\ UNCHANGED <<cache, written>>
         ELSE /\ callers' = [callers EXCEPT ![p].pc = "close",
                                             ![p].wrote = TRUE]
              /\ cache' = WriteData(cache,
                                    WriteBlockCache(callers[p].res.startTime))
              /\ written' = callers[p].res.startTime
      /\ UNCHANGED unshared

\* writeFile closing the file; return metrics
CloseCache ==
    \E p \in Callers :
      /\ callers[p].pc = "close"
      /\ callers' = [callers EXCEPT ![p].pc = "done"]
      /\ UNCHANGED <<cache, written, unshared>>

NextRace ==
    \/ Begin \/ ReadCache \/ Scan \/ OpenCache \/ WriteCache \/ CloseCache
    \/ Tick \/ AppendEntry

SpecRace == InitRace /\ [][NextRace]_vars

\* getAllTimestampsFromFile alone, on every file of up to MaxLines lines
\* drawn from: usage entries at two dates with isSidechain absent, false or a
\* string, and lines with one defect each.
RecordDates == {Now0 - 1, Now0}

Lines ==
    {[ValidLine(t) EXCEPT !.isSidechain = v] :
        t \in RecordDates, v \in {"absent", "false", "string"}}
    \cup {DefectiveLine(Defects[k], Now0) : k \in 1 .. Len(Defects)}

InitRecords ==
    /\ now = Now0
    /\ files = [f \in Files |-> NoFile]
    /\ rootOk = TRUE
    /\ cache = AbsentCache
    /\ ret = NoCall
    /\ ticks = 0
    /\ appends = 0
    /\ Quiet
    /\ \E n \in 0 .. MaxLines : \E lines \in [1 .. n -> Lines] :
         parse = [NoParse EXCEPT !.lines = lines]
    /\ widget = NoWidget

\* A caller runs getAllTimestampsFromFile on the file.
ReadLog ==
    /\ ~parse.done
    /\ LET fs == [f \in Files |-> LogFile(now, {}, parse.lines)]
       IN parse' = [parse EXCEPT
                      !.done = TRUE,
                      !.timestamps = getAllTimestampsFromFile(fs, 1)]
    /\ UNCHANGED <<now, files, rootOk, cache, ret, ticks, appends, concurrent,
                   widget, history>>

SpecRecords == InitRecords /\ [][ReadLog]_vars

\* ----------------------------------------------------- GitWorktree widget

\* The code point of the glyph the widget puts before the name.
WorktreeGlyph == "U+16830"

\* A rendered text, as the pieces it is put together from; null is no text.
NullText == [null |-> TRUE, parts |-> <<>>]

Text(parts) == [null |-> FALSE, parts |-> parts]

\* What `git rev-parse --git-dir` answers: failure (not a repository, no
\* git), or the trimmed path printed, as its segments ("" before a leading
\* slash).
GitFailure == [failed |-> TRUE, dir |-> <<>>]

GitDir(segments) == [failed |-> FALSE, dir |-> segments]

GitAnswers ==
    {GitFailure,
     GitDir(<<".git">>),
     GitDir(<<"", "repo", ".git">>),
     GitDir(<<"", "repo", ".git", "worktrees", "feature">>),
     GitDir(<<"", "repo", ".git", "worktrees", "dir", "feature">>),
     GitDir(<<"", "repo", ".git", "modules", "sub">>)}

\* The segments joined by slashes.
RECURSIVE JoinPath(_)
JoinPath(segments) ==
    IF Len(segments) <= 1 THEN segments
    ELSE <<Head(segments), "/">> \o JoinPath(Tail(segments))

\* worktreeDir.split('.git/worktrees/')[1]: what follows the first
\* .git/worktrees/, or nothing
RECURSIVE AfterWorktrees(_)
AfterWorktrees(dir) ==
    IF Len(dir) < 3 THEN NullText
    ELSE IF dir[1] = ".git" /\ dir[2] = "worktrees"
    THEN Text(JoinPath(SubSeq(dir, 3, Len(dir))))
    ELSE AfterWorktrees(Tail(dir))

\* getGitWorktree(): the worktree name, or null
getGitWorktree(git) ==
    IF git.failed THEN NullText
    ELSE IF git.dir = <<".git">>
            \/ (Len(git.dir) >= 2 /\ git.dir[Len(git.dir)] = ".git")
    THEN Text(<<"main">>)
    ELSE AfterWorktrees(git.dir)

\* The values a caller may pass for a boolean that may be left out.
Optional == {"true", "false", "undefined"}

\* Variant of render: git is asked before the preview test.
render_GitFirst(item, context, git) ==
    LET worktree == getGitWorktree(git)
    IN IF context.isPreview = "true"
       THEN [out |-> IF item.rawValue = "true" THEN Text(<<"main">>)
                     ELSE Text(<<WorktreeGlyph, " ", "main">>),
             execs |-> 1]
       ELSE IF ~worktree.null
       THEN [out |-> IF item.rawValue = "true" THEN worktree
                     ELSE Text(<<WorktreeGlyph, " ">> \o worktree.parts),
             execs |-> 1]
       ELSE [out |-> IF item.hideNoGit = "true" THEN NullText
                     ELSE Text(<<WorktreeGlyph, " ", "no git">>),
             execs |-> 1]

\* GitWorktreeWidget.render(item, context): the text returned and the number
\* of git commands run
render(item, context, git) ==
    IF context.isPreview = "true"
    THEN [out |-> IF item.rawValue = "true" THEN Text(<<"main">>)
                  ELSE Text(<<WorktreeGlyph, " ", "main">>),
          execs |-> 0]
    ELSE
      LET worktree == getGitWorktree(git)
      IN IF ~worktree.null
         THEN [out |-> IF item.rawValue = "true" THEN worktree
                       ELSE Text(<<WorktreeGlyph, " ">> \o worktree.parts),
               execs |-> 1]
         ELSE [out |-> IF item.hideNoGit = "true" THEN NullText
                       ELSE Text(<<WorktreeGlyph, " ", "no git">>),
               execs |-> 1]

\* A widget, an item (rawValue, metadata.hideNoGit) and a context
\* (isPreview) to render it in, and the answer git would give.
InitWidget ==
    /\ now = Now0
    /\ files = [f \in Files |-> NoFile]
    /\ rootOk = TRUE
    /\ cache = AbsentCache
    /\ ret = NoCall
    /\ ticks = 0
    /\ appends = 0
    /\ Quiet
    /\ parse = NoParse
    /\ \E rawValue \in Optional, hideNoGit \in Optional,
          isPreview \in Optional, git \in GitAnswers :
         widget = [type |-> "git-worktree",
                   item |-> [rawValue |-> rawValue, hideNoGit |-> hideNoGit],
                   context |-> [isPreview |-> isPreview],
                   git |-> git, rendered |-> FALSE, out |-> NullText,
                   execs |-> 0]

\* A caller runs widget.render(item, context).
RenderWidget ==
    /\ ~widget.rendered
    /\ LET r == render(widget.item, widget.context, widget.git)
       IN widget' = [widget EXCEPT !.rendered = TRUE, !.out = r.out,
                                   !.execs = r.execs]
    /\ UNCHANGED <<now, files, rootOk, cache, ret, ticks, appends, concurrent,
                   parse, history>>

SpecWidget == InitWidget /\ [][RenderWidget]_vars

\* ------------------------------------------------------ GitChanges widget

\* The decimal digits, and what parseInt(text, 10) gives for a run of them.
Digits == <<"0", "1", "2", "3", "4", "5", "6", "7", "8", "9">>

DigitValue(c) == (CHOOSE k \in 1 .. 10 : Digits[k] = c) - 1

RECURSIVE ParseInt(_)
ParseInt(digits) ==
    IF digits = <<>> THEN 0
    ELSE ParseInt(SubSeq(digits, 1, Len(digits) - 1)) * 10
           + DigitValue(digits[Len(digits)])

\* `${n}` for a number n >= 0: its decimal digits
RECURSIVE Decimal(_)
Decimal(n) ==
    IF n < 10 THEN <<Digits[n + 1]>>
    ELSE Decimal(n \div 10) \o <<Digits[(n % 10) + 1]>>

\* The trimmed stdout of git diff --shortstat, as the tokens spaces separate:
\* runs of digits and other words.
Number(digits) == [kind |-> "number", digits |-> digits, w |-> ""]

Word(w) == [kind |-> "word", digits |-> <<>>, w |-> w]

\* What execAsync('git diff ... --shortstat') answers: rejection (no
\* repository, no git), or stdout.
DiffFailure == [failed |-> TRUE, stdout |-> <<>>]

DiffOutput(tokens) == [failed |-> FALSE, stdout |-> tokens]

DiffAnswers ==
    {DiffFailure,
     DiffOutput(<<>>),
     DiffOutput(<<Number(<<"3">>), Word("files"), Word("changed,"),
                  Number(<<"1", "2">>), Word("insertions(+),"),
                  Number(<<"1">>), Word("deletion(-)")>>),
     DiffOutput(<<Number(<<"1">>), Word("file"), Word("changed,"),
                  Number(<<"1">>), Word("insertion(+)")>>),
     DiffOutput(<<Number(<<"2">>), Word("files"), Word("changed,"),
                  Number(<<"3", "0">>), Word("deletions(-)")>>)}

\* The words the patterns /(\d+) insertion/ and /(\d+) deletion/ match the
\* start of.
InsertionWords ==
    {"insertion(+)", "insertion(+),", "insertions(+)", "insertions(+),"}

DeletionWords == {"deletion(-)", "deletions(-)"}

\* pattern.exec(stat) with match?.[1] ? parseInt(match[1], 10) : 0: the
\* number before the first word the pattern matches, 0 without a match
RECURSIVE MatchCount(_, _)
MatchCount(stat, words) ==
    IF Len(stat) < 2 THEN 0
    ELSE IF stat[1].kind = "number" /\ stat[2].kind = "word"
            /\ stat[2].w \in words
    THEN ParseInt(stat[1].digits)
    ELSE MatchCount(Tail(stat), words)

\* execAsync(...).catch(() => ({ stdout: '' })), then stdout.trim()
StatOf(answer) == IF answer.failed THEN <<>> ELSE answer.stdout

\* GitChangesWidget.getGitChanges(): the totals over the unstaged and the
\* staged diff, or null (when something in the try block throws: nothing
\* does, a rejected exec is replaced by an empty stdout)
getGitChanges(unstaged, staged) ==
    [null |-> FALSE,
     insertions |-> MatchCount(StatOf(unstaged), InsertionWords)
                      + MatchCount(StatOf(staged), InsertionWords),
     deletions |-> MatchCount(StatOf(unstaged), DeletionWords)
                     + MatchCount(StatOf(staged), DeletionWords)]

\* `(+${changes.insertions},-${changes.deletions})`
ChangesText(changes) ==
    Text(<<"(+">> \o Decimal(changes.insertions) \o <<",-">>
           \o Decimal(changes.deletions) \o <<")">>)

\* GitChangesWidget.render(item, context, settings), given what the two git
\* commands answer
renderChanges(item, context, unstaged, staged) ==
    IF context.isPreview = "true"
    THEN Text(<<"(+", "4", "2", ",-", "1", "0", ")">>)
    ELSE IF ~getGitChanges(unstaged, staged).null
    THEN ChangesText(getGitChanges(unstaged, staged))
    ELSE IF item.hideNoGit = "true" THEN NullText
    ELSE Text(<<"(no git)">>)

\* The widget, an item (metadata.hideNoGit) and a context (isPreview) to
\* render it in, and the answers the two git commands would give.
InitChanges ==
    /\ now = Now0
    /\ files = [f \in Files |-> NoFile]
    /\ rootOk = TRUE
    /\ cache = AbsentCache
    /\ ret = NoCall
    /\ ticks = 0
    /\ appends = 0
    /\ Quiet
    /\ parse = NoParse
    /\ \E hideNoGit \in Optional, isPreview \in Optional,
          unstaged \in DiffAnswers, staged \in DiffAnswers :
         widget = [type |-> "git-changes",
                   item |-> [hideNoGit |-> hideNoGit],
                   context |-> [isPreview |-> isPreview],
                   unstaged |-> unstaged, staged |-> staged,
                   rendered |-> FALSE, out |-> NullText]

\* A caller runs widget.render(item, context, settings).
RenderChanges ==
    /\ ~widget.rendered
    /\ widget' = [widget EXCEPT
                    !.rendered = TRUE,
                    !.out = renderChanges(widget.item, widget.context,
                                          widget.unstaged, widget.staged)]
    /\ UNCHANGED <<now, files, rootOk, cache, ret, ticks, appends, concurrent,
                   parse, history>>

SpecChanges == InitChanges /\ [][RenderChanges]_vars

\* ------------------------------------------------------------------ claims

\* The start time a well-formed cache record holds.
RecordStart(c) == c.iso.hour * H + c.iso.frac

\* The call that has just returned was getCachedBlockMetrics.
Returned == ret.fn = "getCachedBlockMetrics"

\* What a getCachedBlockMetrics(d) call finds in cache file c at time t: no
\* usable record, or one whose block has ended.
Missed(c, t, d) == c.kind # "json" \/ t > RecordStart(c) + d * H

\* C1: a getCachedBlockMetrics(d) call that finds a valid record with start
\* time s while now <= s + d (the end of the block included) returns exactly
\* {startTime: s, lastActivity: now}.
C1_CacheHitResult ==
    [][(ret'.fn = "getCachedBlockMetrics"
        /\ cache.kind = "json"
        /\ now <= RecordStart(cache) + ret'.in.d * H)
       => ret'.res = [ok |-> TRUE, startTime |-> RecordStart(cache),
                      lastActivity |-> now]]_vars

\* A call answered from the cache at the very end of the cached block.
C1_HitAtBlockEnd ==
    /\ Returned
    /\ ret.in.before.kind = "json"
    /\ now = RecordStart(ret.in.before) + ret.in.d * H
    /\ ret.res = Metrics(RecordStart(ret.in.before), now)

\* C2: a getCachedBlockMetrics call runs the locator if and only if the cache
\* record is absent, invalid or expired; a call that finds an unexpired
\* record returns a window with the recorded start time without enumerating
\* or reading any log file, whatever the state of the log tree.
C2_ScanIffMissed ==
    [][ret'.fn = "getCachedBlockMetrics"
       => /\ ret'.scanned <=> Missed(cache, now, ret'.in.d)
          /\ ~Missed(cache, now, ret'.in.d)
               => /\ ret'.res.ok
                  /\ ret'.res.startTime = RecordStart(cache)
                  /\ ret'.scan = NoScan]_vars

\* A call answered from the cache, after time has passed, while the log tree
\* is inaccessible.
C2_HitWithLogsGone ==
    /\ Returned
    /\ ~rootOk
    /\ ticks > 0
    /\ ~ret.scanned
    /\ ret.res.ok
    /\ ret.res.startTime = RecordStart(ret.in.before)

\* C3: a getCachedBlockMetrics call writes the cache at most once: once, with
\* the locator's start time replacing any record, when it missed and the
\* locator returned a window (which the call returns); otherwise not at all,
\* and the cache file is left as it was.
C3_CacheWrites ==
    [][ret'.fn = "getCachedBlockMetrics"
       => LET loc == getBlockMetrics(files, rootOk, now).res
          IN /\ Len(ret'.writes) <= 1
             /\ IF Missed(cache, now, ret'.in.d) /\ loc.ok
                THEN /\ ret'.writes = <<loc.startTime>>
                     /\ cache'.kind = "json"
                     /\ cache'.iso.frac < H
                     /\ RecordStart(cache') = loc.startTime
                     /\ ret'.res = loc
                ELSE /\ ret'.writes = <<>>
                     /\ cache' = cache]_vars

\* A call that found an expired record and the locator finding nothing: the
\* stale record is still in place.
C3_StaleRecordKept ==
    /\ Returned
    /\ ret.in.before.kind = "json"
    /\ ret.scanned
    /\ ~ret.res.ok
    /\ ret.writes = <<>>
    /\ cache = ret.in.before

\* C11: a getCachedBlockMetrics call that finds a cache file whose content is
\* not JSON, has no string startTime or holds an unparseable date behaves as
\* on a missing file: readBlockCache gives null, the result, the scan and the
\* writes are those of the same call with no cache file, and the file is
\* neither removed nor changed unless the call writes a new record.
C11_InvalidAsMissing ==
    [][(ret'.fn = "getCachedBlockMetrics" /\ cache.kind \in InvalidKinds)
       => LET absent == getCachedBlockMetrics(AbsentCache, files, rootOk, now,
                                              ret'.in.d)
          IN /\ ReadBlockCache(cache) = NoDate
             /\ ret'.res = absent.res
             /\ ret'.scanned
             /\ ret'.scan = absent.scan
             /\ ret'.writes = absent.writes
             /\ IF ret'.writes = <<>> THEN cache' = cache
                                      ELSE cache' = absent.after]_vars

\* A call that found a startTime of the wrong type, holding the start of a
\* block that has not ended, scanned, found no window and left the file.
C11_WrongTypeIgnored ==
    /\ Returned
    /\ ret.in.before.kind = "nostring"
    /\ now <= RecordStart(ret.in.before) + ret.in.d * H
    /\ ret.scanned
    /\ ~ret.res.ok
    /\ cache = ret.in.before

\* C9: every start time the locator returns, every start time a call
\* returns, and the cache record, lie on an hour boundary.
C9_HourAligned ==
    /\ ret.res.ok => ret.res.startTime % H = 0
    /\ cache.kind = "json" => cache.iso.frac = 0

\* A call that located a block whose activity is off the hour, and cached it.
C9_AlignedFromOffHour ==
    /\ Returned
    /\ ret.scanned
    /\ ret.res.ok
    /\ ret.res.lastActivity % H # 0
    /\ \A k \in 1 .. Len(ret.scan.loop.timestamps) :
         ret.scan.loop.timestamps[k] % H # 0
    /\ cache.kind = "json"
    /\ RecordStart(cache) = ret.res.startTime

\* C10: the window duration d of a getCachedBlockMetrics(d) call is the one
\* the locator uses: a window returned on a miss satisfies
\* now <= startTime + d, and a next call at the same instant is a cache hit.
C10_DurationShared ==
    (Returned /\ ret.scanned /\ ret.res.ok)
      => /\ now <= ret.res.startTime + ret.in.d * H
         /\ ~getCachedBlockMetrics(cache, files, rootOk, now, ret.in.d).scanned

\* C12: no failure of a filesystem operation makes getCachedBlockMetrics
\* raise: every call returns a window or null; when the scan throws the call
\* returns null; and a call whose cache write fails still returns the window
\* the locator found.
C12_NeverRaises ==
    [][ret'.fn = "getCachedBlockMetrics"
       => LET loc == findMostRecentBlockStartTime(files, rootOk, now,
                                                  DefaultSessionHours)
          IN /\ ~ret'.raised
             /\ IF ret'.res.ok
                THEN ret'.res.startTime >= 0 /\ ret'.res.lastActivity >= 0
                ELSE ret'.res = NullMetrics
             /\ (ret'.scanned /\ loc.threw) => ret'.res = NullMetrics
             /\ (ret'.scanned /\ ~loc.threw) => ret'.res = loc.res
             /\ (ret'.scanned /\ loc.res.ok /\ cache.fault # "none")
                  => /\ ret'.res = loc.res
                     /\ ret'.writes = <<loc.res.startTime>>
                     /\ cache'.kind # "json" \/ cache' = cache]_vars

\* A call that read the logs past an unreadable file, failed to write the
\* cache (leaving it truncated) and returned the window it found.
C12_WindowDespiteFailedWrite ==
    /\ Returned
    /\ ret.in.before.fault = "nospace"
    /\ \E f \in Files : files[f].exists /\ ~files[f].readOk
    /\ ret.scanned
    /\ ret.res.ok
    /\ cache.kind = "garbage"

\* The log tree with file f empty and accessible.
Emptied(f) ==
    [files EXCEPT ![f] = LogFile(files[f].mtime, {}, <<>>)]

\* The log tree with file f freed of the lines that are no usage entries.
WithoutJunk(f) == [files EXCEPT ![f].junk = <<>>]

\* C13: a log file whose stat or read fails contributes no timestamp, and
\* malformed lines contribute none, the scan continuing: the locator's
\* result is the result on the same tree with that file empty (without the
\* malformed lines), the scan is not abandoned.
C13_BadFileAsEmpty ==
    (ret.fn # "none" /\ ret.scanned)
      => \A f \in Files :
           /\ (files[f].exists /\ ~(files[f].statOk /\ files[f].readOk))
                => ret.scan.res = getBlockMetrics(Emptied(f), rootOk, now).res
           /\ (files[f].exists /\ files[f].junk # <<>>)
                => ret.scan.res = getBlockMetrics(WithoutJunk(f), rootOk, now).res

\* Every concurrent call has returned.
AllDone == \A p \in Callers : callers[p].pc = "done"

\* C16: in every interleaving of concurrent getCachedBlockMetrics calls on
\* the one cache file, no call raises; a call that reads a missing or
\* partially written (truncated) file goes on to scan, as on a miss; and once
\* all calls have returned and a record was written, the file holds the
\* complete record of the last write to complete, not a mixture.
C16_LastWriterWins ==
    [][/\ \A p \in Callers :
            /\ ~callers'[p].raised
            /\ (callers[p].pc = "read" /\ callers'[p].pc # "read"
                 /\ cache.kind # "json")
                 => callers'[p].pc = "scan"
       /\ (AllDone' /\ written' # NoDate)
            => cache' = CacheRecord(ToISOString(written'))]_vars

\* Two calls have both written, different records, one of them between the
\* open and the write of the other; the file holds the later record.
C16_TwoWritersDone ==
    /\ AllDone
    /\ \A p \in Callers : callers[p].wrote
    /\ \E p, q \in Callers :
         /\ callers[p].res.startTime # callers[q].res.startTime
         /\ written = callers[q].res.startTime
         /\ callers[q].started < callers[p].started
    /\ cache = CacheRecord(ToISOString(written))

\* Whether a line is a usage entry that counts: it parses as JSON (to an
\* object), has message.usage with numeric input_tokens and output_tokens,
\* is not marked isSidechain === true, and has a string timestamp that is a
\* date.
Contributes(l) ==
    /\ l.text = "json" /\ l.value = "object"
    /\ l.message /\ l.usage
    /\ l.input_tokens = "number" /\ l.output_tokens = "number"
    /\ l.isSidechain # "true"
    /\ l.timestamp.type = "string"
    /\ l.timestamp.iso # BadISO

\* The lines at the positions K of a file, in their order.
RECURSIVE Keep(_, _, _)
Keep(lines, K, i) ==
    IF i > Len(lines) THEN <<>>
    ELSE (IF i \in K THEN <<lines[i]>> ELSE <<>>) \o Keep(lines, K, i + 1)

\* C17: a line contributes a timestamp if and only if it parses as JSON, has
\* message.usage with numeric input_tokens and output_tokens, is not marked
\* isSidechain === true and has a string timestamp that is a valid date; the
\* timestamps returned are the dates of these lines, in the order of the
\* lines, whatever lines stand between them.
C17_ContributingLines ==
    parse.done =>
      LET K == {i \in 1 .. Len(parse.lines) : Contributes(parse.lines[i])}
          kept == Keep(parse.lines, K, 1)
      IN /\ Len(parse.timestamps) = Cardinality(K)
         /\ \A k \in 1 .. Len(kept) :
              /\ parse.timestamps[k] \div H = kept[k].timestamp.iso.hour
              /\ parse.timestamps[k] % H = kept[k].timestamp.iso.frac

\* A file read whose usage entries, of different dates, stand around a
\* sidechain line: two timestamps, in the order of the lines.
C17_SidechainBetweenEntries ==
    /\ parse.done
    /\ Len(parse.lines) = 3
    /\ Contributes(parse.lines[1]) /\ Contributes(parse.lines[3])
    /\ parse.lines[2].isSidechain = "true"
    /\ parse.lines[1].isSidechain = "string"
    /\ Len(parse.timestamps) = 2
    /\ parse.timestamps[1] > parse.timestamps[2]

\* C18: GitWorktreeWidget.render with context.isPreview true returns the
\* glyph and main, or main alone when item.rawValue is true, whatever
\* hideNoGit is and whatever git would answer, and runs no git command.
C18_PreviewRender ==
    (widget.type = "git-worktree" /\ widget.rendered
     /\ widget.context.isPreview = "true")
      => /\ widget.out = IF widget.item.rawValue = "true"
                         THEN [null |-> FALSE, parts |-> <<"main">>]
                         ELSE [null |-> FALSE,
                               parts |-> <<"U+16830", " ", "main">>]
         /\ widget.execs = 0

\* A preview rendered with hideNoGit set where git would fail.
C18_PreviewWithoutGit ==
    /\ widget.type = "git-worktree"
    /\ widget.rendered
    /\ widget.context.isPreview = "true"
    /\ widget.item.hideNoGit = "true"
    /\ widget.git.failed
    /\ widget.out.parts = <<"U+16830", " ", "main">>

\* C14: when no log file exists under the root (the directory is empty, or
\* the root is missing), the locator reports no window and does not throw,
\* and a getCachedBlockMetrics call that misses returns null and does not
\* write the cache.
C14_NoFilesNoWindow ==
    (ret.fn # "none" /\ ret.scanned
     /\ (~rootOk \/ \A f \in Files : ~files[f].exists))
      => /\ ret.res = NullMetrics
         /\ ~ret.raised
         /\ ~ret.scan.threw /\ ~ret.scan.caught
         /\ ret.scan.loop.passes = 0
         /\ ret.writes = <<>>
         /\ cache = ret.in.before

\* A call that missed on an expired record while the root is missing, the
\* log files holding an entry at this very instant.
C14_MissWithRootGone ==
    /\ Returned
    /\ ~rootOk
    /\ \E f \in Files : files[f].exists /\ now \in files[f].stamps
    /\ ret.in.before.kind = "json"
    /\ ret.scanned
    /\ ret.res = NullMetrics
    /\ cache = ret.in.before

\* The call that has just returned was the locator.
Located == ret.fn = "getBlockMetrics"

\* The session duration the locator runs with, in ticks.
SessionT == DefaultSessionHours * H

\* The dates of all valid entries of the log tree.
AllStamps == UNION {files[f].stamps : f \in {g \in Files : files[g].exists}}

\* The dates of the entries in the files pass i of the lookback opens: those
\* modified no earlier than now - lookbackChunks[i].
Visible(i) ==
    UNION {files[f].stamps :
             f \in {g \in Files : /\ files[g].exists
                                  /\ files[g].mtime >= now - LookbackChunks[i] * H}}

\* Whether block b contains date t.
Within(t, b) == b.start <= t /\ t <= b.end

\* C4: a window the locator returns is one of the blocks it built, its closed
\* interval [startTime, startTime + session] contains now and an observed
\* timestamp; the activity check rejects no built block that contains now;
\* and the locator returns no window when no built block contains now.
C4_ReturnedBlock ==
    Located =>
      LET blocks == ret.scan.blocks
          ts == ret.scan.loop.timestamps
          r == ret.res
      IN /\ r.ok =>
              /\ \E k \in 1 .. Len(blocks) :
                   blocks[k] = [start |-> r.startTime,
                                end |-> r.startTime + SessionT]
              /\ r.startTime <= now /\ now <= r.startTime + SessionT
              /\ \E k \in 1 .. Len(ts) :
                   r.startTime <= ts[k] /\ ts[k] <= r.startTime + SessionT
         /\ \A k \in 1 .. Len(blocks) :
              Within(now, blocks[k])
                => r.ok /\ \E j \in 1 .. Len(ts) : Within(ts[j], blocks[k])
         /\ (\A k \in 1 .. Len(blocks) : ~Within(now, blocks[k])) => ~r.ok

\* The locator built several blocks and returned the last of them.
C4_LaterBlockReturned ==
    /\ Located
    /\ ret.res.ok
    /\ Len(ret.scan.blocks) >= 2
    /\ ret.scan.blocks[Len(ret.scan.blocks)].start = ret.res.startTime

\* C5: when the most recent timestamp of the first pass that found any is
\* more than the session duration before now, the locator returns no window
\* in that pass, without running a larger one; activity exactly one session
\* duration old is not stale; so every window returned has
\* now - lastActivity <= session duration.
C5_StaleActivity ==
    Located =>
      /\ \A i \in 1 .. Len(LookbackChunks) :
           (Visible(i) # {} /\ \A j \in 1 .. i - 1 : Visible(j) = {})
             => IF now - Max(Visible(i)) > SessionT
                THEN /\ ~ret.res.ok
                     /\ ret.scan.loop.stale
                     /\ ret.scan.loop.passes = i
                ELSE ~ret.scan.loop.stale
      /\ ret.res.ok => now - ret.res.lastActivity <= SessionT

\* The first pass found only stale activity and the locator stopped there,
\* though a larger pass would have opened another file with entries.
C5_StaleStopsFirstPass ==
    /\ Located
    /\ ret.scan.loop.stale
    /\ ret.scan.loop.passes = 1
    /\ ~ret.res.ok
    /\ Visible(2) # Visible(1)

\* C6: when all valid timestamps lie within 2 hours and the latest is now,
\* the locator returns the hour the earliest one falls in as startTime and
\* the latest one as lastActivity.
C6_SimpleSession ==
    Located =>
      LET S == AllStamps
      IN (S # {} /\ Max(S) = now /\ Min(S) >= now - 2 * H)
           => /\ ret.res.ok
              /\ ret.res.startTime % H = 0
              /\ ret.res.startTime <= Min(S)
              /\ Min(S) < ret.res.startTime + H
              /\ ret.res.lastActivity = Max(S)

\* A cluster of three entries in two files, exactly 2 hours long, that
\* starts off the hour.
C6_TwoHourCluster ==
    /\ Located
    /\ Cardinality(AllStamps) >= 3
    /\ \A f \in Files : files[f].stamps # {}
    /\ Max(AllStamps) = now
    /\ Min(AllStamps) = now - 2 * H
    /\ Min(AllStamps) % H # 0
    /\ ret.res.ok

\* The orders glob may enumerate the same files in: the permutations of the
\* files, and the log tree as enumerated in order p.
Orders == {p \in [Files -> Files] : \A f, g \in Files : p[f] = p[g] => f = g}

Enumerated(fs, p) == [f \in Files |-> fs[p[f]]]

\* C15: a locator run changes nothing a next run reads (the log tree, the
\* root, the clock, the cache file), and a run over the same files at the
\* same instant returns the same result (no window, or the same startTime
\* and lastActivity) whatever order the files are enumerated in.
C15_Idempotent ==
    [][ret'.fn = "getBlockMetrics"
       => /\ files' = files /\ rootOk' = rootOk /\ now' = now
          /\ cache' = cache
          /\ \A p \in Orders :
               getBlockMetrics(Enumerated(files', p), rootOk', now').res
                 = ret'.res]_vars

\* A run that returned a window from two files with different entries and
\* equal modification times, which the order of enumeration arranges.
C15_TiedFiles ==
    /\ Located
    /\ ret.res.ok
    /\ \E f, g \in Files :
         /\ f # g
         /\ files[f].exists /\ files[g].exists
         /\ files[f].mtime = files[g].mtime
         /\ files[f].stamps # {} /\ files[g].stamps # {}
         /\ Max(files[f].stamps) # Max(files[g].stamps)

\* The hour date t falls in.
HourOf(t) == CHOOSE h \in (t - H + 1) .. t : h % H = 0

\* The final state of the lookback loop of the run that has just returned,
\* the dates its last pass read, and those of them the block building scans
\* (the ones at or after the continuous work start).
Loop == ret.scan.loop

LastPass == {Loop.timestamps[k] : k \in 1 .. Len(Loop.timestamps)}

Scanned == {t \in LastPass : t >= Loop.continuousWorkStart}

\* The run went on to build blocks.
BuiltBlocks ==
    /\ Located
    /\ ~Loop.stale
    /\ Loop.mostRecentTimestamp # NoDate
    /\ Loop.continuousWorkStart # NoDate

\* C19: the blocks built are ordered and do not overlap: the first opens at
\* the hour of the first timestamp scanned, each next one at the hour of the
\* first timestamp strictly after the end of the one before (a timestamp at
\* the end opens none), every block is [start, start + session], each starts
\* at or after the end of the one before, and every timestamp scanned lies
\* in the block open when it is scanned.
C19_BlocksOrdered ==
    BuiltBlocks =>
      LET blocks == ret.scan.blocks
          n == Len(blocks)
          After(k) == {t \in Scanned : t > blocks[k].end}
      IN /\ n >= 1
         /\ blocks[1].start = HourOf(Min(Scanned))
         /\ \A k \in 1 .. n : blocks[k].end = blocks[k].start + SessionT
         /\ \A k \in 1 .. n - 1 :
              /\ After(k) # {}
              /\ blocks[k + 1].start = HourOf(Min(After(k)))
              /\ blocks[k + 1].start >= blocks[k].end
         /\ After(n) = {}
         /\ \A t \in Scanned :
              \E k \in 1 .. n :
                /\ Within(t, blocks[k])
                /\ \A j \in 1 .. k - 1 : t > blocks[j].end

\* A run of three timestamps, the last exactly at the end of the block the
\* first opened: one block.
C19_TimestampAtBlockEnd ==
    /\ BuiltBlocks
    /\ Cardinality(Scanned) >= 3
    /\ Len(ret.scan.blocks) = 1
    /\ \E t \in Scanned : t = ret.scan.blocks[1].end

\* The date of the last pass just before x, and the dates reachable from
\* the most recent one through adjacent pairs less than a session apart.
Before(x) == Max({y \in LastPass : y < x})

Reachable ==
    {t \in LastPass :
       \A x \in LastPass :
         (t < x /\ x <= Max(LastPass)) => x - Before(x) < SessionT}

\* C20: when the lookback loop ends with a last activity established (and
\* not stale), the continuous work start is the earliest date of the last
\* pass reachable from the most recent one through adjacent pairs whose gap
\* is strictly less than the session duration; a gap of exactly the session
\* duration is a boundary; and a session gap is found exactly when some date
\* of the last pass is not reachable.
C20_ContinuousStart ==
    (Located /\ ~Loop.stale /\ Loop.mostRecentTimestamp # NoDate)
      => /\ Loop.mostRecentTimestamp = Max(LastPass)
         /\ Loop.continuousWorkStart = Min(Reachable)
         /\ Loop.foundSessionGap <=> Reachable # LastPass

\* A walk that advanced past the most recent timestamp and stopped at a
\* boundary.
C20_WalkStopsAtBoundary ==
    /\ Located
    /\ ~Loop.stale
    /\ Loop.foundSessionGap
    /\ Loop.continuousWorkStart < Loop.mostRecentTimestamp
    /\ Loop.continuousWorkStart - Before(Loop.continuousWorkStart) >= SessionT

\* S forms one cluster: no two adjacent dates of S are a session duration or
\* more apart.
OneCluster(S) ==
    \A x \in S : x = Min(S) \/ \E y \in S : y < x /\ x - y < SessionT

\* The log tree without the entries dated in O.
WithoutStamps(O) ==
    [f \in Files |-> [files[f] EXCEPT !.stamps = @ \ O]]

\* C7: when the timestamps form two clusters separated by a gap of at least
\* the session duration, the older cluster is ignored: the locator's result
\* is the result on the log tree without the older cluster's entries, and
\* (for a recent cluster that one window holds) the startTime returned is the
\* hour the recent cluster's earliest entry falls in.
C7_OlderClusterIgnored ==
    Located =>
      \A c \in AllStamps :
        LET R == {x \in AllStamps : x >= c}
            O == AllStamps \ R
        IN (O # {} /\ c - Max(O) >= SessionT /\ OneCluster(R) /\ OneCluster(O))
             => /\ ret.res = getBlockMetrics(WithoutStamps(O), rootOk, now).res
                /\ (ret.res.ok /\ Max(R) <= HourOf(c) + SessionT)
                     => ret.res.startTime = HourOf(c)

\* The chain of windows over the dates S: the first opens at the hour of the
\* earliest date, the next at the hour of the earliest date after the end
\* of the previous one.
RECURSIVE WindowChain(_)
WindowChain(S) ==
    IF S = {} THEN {}
    ELSE LET a == HourOf(Min(S))
         IN {a} \cup WindowChain({x \in S : x > a + SessionT})

\* The window of the chain over S that is open at now (the earlier one when
\* now is the common bound of two), or NoDate.
CurrentWindow(S) ==
    LET open == {a \in WindowChain(S) : a <= now /\ now <= a + SessionT}
    IN IF open = {} THEN NoDate ELSE Min(open)

\* A continuous run of activity spanning at least 12 hours, whose older part
\* is in files only the 20h pass opens: the entries the 10h pass sees are the
\* run from some date on, the others are in files modified within 20 hours.
LongRunAcrossPasses ==
    /\ AllStamps # {}
    /\ OneCluster(AllStamps)
    /\ Max(AllStamps) - Min(AllStamps) >= 12 * H
    /\ Visible(1) # {}
    /\ Visible(1) # AllStamps
    /\ Visible(1) = {x \in AllStamps : x >= Min(Visible(1))}
    /\ Visible(2) = AllStamps

\* C8 as stated: for such a run the startTime returned is the hour of the
\* run's earliest timestamp.
C8_StartIsEarliestHour ==
    (Located /\ LongRunAcrossPasses /\ ret.res.ok)
      => ret.res.startTime = HourOf(Min(AllStamps))

\* C8, amended: for such a run the window returned is the one open at now in
\* the chain of windows built forward from the earliest timestamp of the
\* full run (none if none is open), with the run's latest timestamp as
\* lastActivity; it is not the window of the chain built from the entries
\* the first pass saw.
C8_WindowOfFullRun ==
    (Located /\ LongRunAcrossPasses)
      => /\ ret.res.ok <=> CurrentWindow(AllStamps) # NoDate
         /\ ret.res.ok
              => /\ ret.res.startTime = CurrentWindow(AllStamps)
                 /\ ret.res.lastActivity = Max(AllStamps)

\* Such a run for which the chain built from the first pass's entries has
\* another window open at now than the chain of the full run.
C8_TruncatedChainDiffers ==
    /\ Located
    /\ LongRunAcrossPasses
    /\ ret.res.ok
    /\ CurrentWindow(Visible(1)) # NoDate
    /\ CurrentWindow(Visible(1)) # CurrentWindow(AllStamps)
    /\ ret.res.startTime # HourOf(Min(AllStamps))

\* The passes of the lookback that are the first to read any timestamp (one
\* pass, or none).
FirstYield ==
    {i \in 1 .. Len(LookbackChunks) :
       Visible(i) # {} /\ \A j \in 1 .. i - 1 : Visible(j) = {}}

\* C21: the lastActivity the locator returns is the most recent timestamp of
\* the first lookback pass that read any timestamp: it is set in that pass
\* and no later, larger pass overwrites it, whatever that pass reads; when
\* no pass reads a timestamp there is no window.
C21_LastActivityFixed ==
    Located =>
      /\ FirstYield = {}
           => ~ret.res.ok /\ Loop.mostRecentTimestamp = NoDate
      /\ \A i \in FirstYield :
           /\ Loop.mostRecentTimestamp = Max(Visible(i))
           /\ ret.res.ok => ret.res.lastActivity = Max(Visible(i))

\* A run that returned a window after a later pass read a timestamp more
\* recent than the one the first pass fixed.
C21_LaterPassMoreRecent ==
    /\ Located
    /\ ret.res.ok
    /\ \E i \in FirstYield : Loop.passes > i
    /\ Max(LastPass) > ret.res.lastActivity

\* The horizons, in hours, in the order the locator is to try them, and the
\* dates of the entries in the files modified within horizon i.
Horizons == <<10, 20, 48>>

InHorizon(i) ==
    UNION {files[f].stamps :
             f \in {g \in Files : /\ files[g].exists
                                  /\ files[g].mtime >= now - Horizons[i] * H}}

\* The gap walk over the entries of horizon i finds a session boundary.
BoundaryIn(i) == InHorizon(i) # {} /\ ~OneCluster(InHorizon(i))

\* Horizon i is the first to yield a timestamp, and the most recent one is
\* more than a session old.
StaleIn(i) ==
    /\ InHorizon(i) # {}
    /\ \A j \in 1 .. i - 1 : InHorizon(j) = {}
    /\ now - Max(InHorizon(i)) > SessionT

\* The files pass i of the run that has just returned opened.
OpenedIn(i) == {Loop.opened[i][k] : k \in 1 .. Len(Loop.opened[i])}

\* C22 as stated: the locator stops expanding at the first horizon whose gap
\* walk finds a session boundary and otherwise stops after the last horizon.
C22_StopsAtBoundaryOrLast ==
    (Located /\ \E f \in Files : files[f].exists)
      => Loop.passes = Min({i \in 1 .. 3 : BoundaryIn(i)} \cup {3})

\* C22, amended: the locator tries the horizons smallest first (each pass
\* opens the files the one before opened, and possibly more), goes on to the
\* next horizon when one yields no timestamp, and stops at the first horizon
\* that either yields timestamps the most recent of which is stale or whose
\* gap walk finds a session boundary, otherwise after the last horizon:
\* every call ends after at most three passes.
C22_HorizonOrder ==
    Located =>
      /\ Loop.passes <= 3
      /\ Len(Loop.opened) = Loop.passes
      /\ \A i \in 1 .. Loop.passes - 1 : OpenedIn(i) \subseteq OpenedIn(i + 1)
      /\ (\E f \in Files : files[f].exists)
           => Loop.passes
                = Min({i \in 1 .. 3 : StaleIn(i) \/ BoundaryIn(i)} \cup {3})

\* A run that went past a first horizon without timestamps and ended in the
\* second, whose entries are stale and hold no session boundary.
C22_StaleEndsSecondPass ==
    /\ Located
    /\ Loop.passes = 2
    /\ InHorizon(1) = {}
    /\ StaleIn(2)
    /\ ~BoundaryIn(2)
    /\ OpenedIn(1) # OpenedIn(2)

\* The files modified at or after the cutoff of horizon i.
MeetsCutoff(i) ==
    {f \in Files : files[f].exists /\ files[f].mtime >= now - Horizons[i] * H}

\* C23: in each pass, with cutoff = now - horizon, the files opened are
\* exactly the files modified at or after the cutoff, each once: the break
\* at the first older file of the sorted list skips none of them; so a file
\* skipped in a smaller horizon is opened in a larger one whose cutoff it
\* meets, a file older than the 48h cutoff is opened in no pass, and the
\* timestamps of a pass are those of the files it opened.
C23_OpenedAreRecent ==
    Located =>
      /\ \A i \in 1 .. Loop.passes :
           /\ OpenedIn(i) = MeetsCutoff(i)
           /\ Len(Loop.opened[i]) = Cardinality(MeetsCutoff(i))
           /\ \A f \in OpenedIn(i) : files[f].mtime >= now - 48 * H
      /\ Loop.passes >= 1
           => LastPass = UNION {files[f].stamps : f \in OpenedIn(Loop.passes)}

\* A run of three passes on a tree with a file the first pass skipped and
\* the second opened (listed after a file holding entries, older than every
\* cutoff, that no pass opened).
C23_SkippedThenOpened ==
    /\ Located
    /\ Loop.passes = 3
    /\ files[1].exists /\ files[1].stamps # {}
    /\ files[1].mtime < now - 48 * H
    /\ \A i \in 1 .. 3 : 1 \notin OpenedIn(i)
    /\ 2 \notin OpenedIn(1)
    /\ 2 \in OpenedIn(2)
    /\ ret.res.ok

\* The gap walk and the window construction run once, over the timestamps
\* of all files modified within the largest horizon.
LargestHorizonOnce ==
    LET sorted == SortByMtime(Glob(files, rootOk), files)
        ts == SortDesc(CollectTimestamps(sorted, 1, files,
                                         now - Horizons[3] * H))
    IN IF ts = <<>> THEN NullMetrics
       ELSE IF IsStale(now - ts[1], SessionT) THEN NullMetrics
       ELSE LET walk == GapWalk(ts, 2, ts[1], SessionT)
                blocks == BuildBlocks(SortAsc(ts), 1, walk.cws, SessionT,
                                      <<>>)
            IN FindCurrentBlock(blocks, 1, ts, now, ts[1])

\* No log file holds a timestamp later than its modification time.
StampsBeforeMtime ==
    \A f \in Files :
      files[f].exists => \A x \in files[f].stamps : x <= files[f].mtime

\* C24: when no file holds a timestamp later than its modification time,
\* the locator's result (no window, or startTime and lastActivity) is the
\* result of the same gap walk and window construction run once over the
\* timestamps of all files modified within the 48h horizon: stopping at a
\* smaller horizon where a boundary is found does not change the answer.
C24_SameAsLargestHorizon ==
    (Located /\ StampsBeforeMtime) => ret.res = LargestHorizonOnce

\* C25: in a session of default-duration calls from no cache file, with a
\* clock that does not go back and logs that are only appended to, stamped
\* with the time of appending, a call answered from the cache returns the
\* startTime a locator scan at that instant returns: the cache serves no
\* window where the locator reports none or another start.
C25_HitMatchesScan ==
    (Returned /\ ~ret.scanned)
      => LET fresh == getBlockMetrics(files, rootOk, now).res
         IN fresh.ok /\ fresh.startTime = ret.res.startTime

\* C27: over a session of getCachedBlockMetrics(5) calls from no cache file,
\* with a clock that does not go back, append-only logs and successful cache
\* writes, a startTime returned is never earlier than the one returned
\* before it, and differs from it only on a call made after the end of the
\* window returned before (that startTime + 5h).
C27_StartsAdvance ==
    [][(ret'.fn = "getCachedBlockMetrics" /\ ret'.res.ok
        /\ history.last # NoDate)
       => /\ ret'.res.startTime >= history.last
          /\ ret'.res.startTime # history.last
               => now > history.last + DefaultSessionHours * H]_vars

\* A session in which a call returned a window and, after that window had
\* ended and the logger had appended, a call returned a later one.
C27_NextWindowReturned ==
    /\ Returned
    /\ ret.res.ok
    /\ appends > 0
    /\ history.prev # NoDate
    /\ history.last = ret.res.startTime
    /\ history.last > history.prev
    /\ cache = CacheRecord(ToISOString(history.last))

\* C26: GitChangesWidget.render outside preview mode, when the git diff
\* commands fail (no repository, no git), returns (no git), or null when
\* metadata.hideNoGit is 'true'; it returns a (+insertions,-deletions)
\* string only when git diff ran.
C26_NoGitWhenDiffFails ==
    (widget.type = "git-changes" /\ widget.rendered
     /\ widget.context.isPreview # "true"
     /\ widget.unstaged.failed /\ widget.staged.failed)
      => widget.out = IF widget.item.hideNoGit = "true"
                      THEN [null |-> TRUE, parts |-> <<>>]
                      ELSE [null |-> FALSE, parts |-> <<"(no git)">>]

====
